---- MODULE Spec2Model ----
(***************************************************************************)
(* A model of the LM75 driver of PythonLibraries/LM75.py.                  *)
(*                                                                         *)
(* The driver object holds a bus handle and an address; every other piece  *)
(* of state lives in the four registers of the chip at that address.  A    *)
(* driver method is a straight-line sequence of one or two SMBus           *)
(* transactions; each transaction may raise (IOError), which ends the      *)
(* method there.                                                           *)
(*                                                                         *)
(* Temperatures are counted in half degrees: the Python value v is the     *)
(* integer 2*v here (75.0 is 150, -0.5 is -1).                             *)
(***************************************************************************)
EXTENDS Integers, Sequences, FiniteSets, TLC

VARIABLES
    dev,          \* the chip's registers at self.address: register index -> value
    address,      \* LM75.address / self.address
    constructed,  \* __init__ has returned: the caller holds the object
    fresh,        \* history: no write has been attempted since __init__ returned
    call,         \* history: the last driver call, [op, arg]
    ret,          \* history: how that call ended ("None", "True", "False",
                  \*   "num" for a numeric result, "TransportError" for a raise)
    val,          \* history: the numeric result when ret = "num"
    log,          \* history: the bus transactions that call issued, in order
    pc,           \* per thread: position inside a read-modify-write helper
    top,          \* per thread: the helper it runs
    cfgVal,       \* per thread: the helper's local cfgVal
    order,        \* history: the bus transactions of the threads, in order
    conf0         \* history: CONFIG when the threads started

vars == <<dev, address, constructed, fresh, call, ret, val, log,
          pc, top, cfgVal, order, conf0>>

drv == <<dev, address, constructed, fresh, call, ret, val, log>>
thr == <<pc, top, cfgVal, order, conf0>>

-----------------------------------------------------------------------------
(* Register indices and the class default address.                         *)

__TEMP == 0
_CONFIG == 1
_THYST == 2
_TSET == 3
DefaultAddress == 72

(* Widths of the SMBus data: read_byte_data yields 0..255, read_word_data  *)
(* yields 0..65535.                                                        *)
ByteBits == 8
WordBits == 16

-----------------------------------------------------------------------------
(* Python's integer operators, on the values the driver applies them to.   *)

RECURSIVE Pow(_, _)
Pow(b, e) ==
    IF e = 0 THEN 1
    ELSE IF e % 2 = 0 THEN Pow(b * b, e \div 2)
    ELSE b * Pow(b, e - 1)

RECURSIVE BitAnd(_, _)
BitAnd(a, b) ==
    IF a = 0 \/ b = 0 THEN 0
    ELSE (a % 2) * (b % 2) + 2 * BitAnd(a \div 2, b \div 2)

RECURSIVE BitOr(_, _)
BitOr(a, b) ==
    IF a = 0 THEN b
    ELSE IF b = 0 THEN a
    ELSE (IF a % 2 = 1 \/ b % 2 = 1 THEN 1 ELSE 0) + 2 * BitOr(a \div 2, b \div 2)

\* ~x on Python's unbounded integers
Invert(x) == -x - 1

\* a & b for a >= 0 and any b: a negative b is the complement of Invert(b)
PyAnd(a, b) == IF b >= 0 THEN BitAnd(a, b) ELSE a - BitAnd(a, Invert(b))

ShiftLeft(x, n) == x * Pow(2, n)
ShiftRight(x, n) == x \div Pow(2, n)

Bytes == 0 .. (Pow(2, ByteBits) - 1)
AllWords == 0 .. (Pow(2, WordBits) - 1)

-----------------------------------------------------------------------------
(* The decoding of getTemp, getThys and getTset (the three bodies are the  *)
(* same), in half degrees.                                                 *)

\* variant: the fields taken from the other byte of the word
DecodeByteSwapped(temp) ==
    LET dec == ShiftRight(BitAnd(temp, 128), 7)
        temsign == BitAnd(temp, 32768)
        mag == ShiftRight(BitAnd(temp, 32512), 8)
    IN  Pow(-1, temsign) * (2 * mag + dec)

Decode(temp) ==
    LET dec == ShiftRight(BitAnd(temp, 32768), 15)
        temsign == BitAnd(temp, 128)
        mag == BitAnd(temp, 127)
    IN  Pow(-1, temsign) * (2 * mag + dec)

-----------------------------------------------------------------------------
(* The value each read-modify-write helper computes from the CONFIG byte   *)
(* it has read.                                                            *)

\* variant: the range check off by one
FaultQueueValidUpTo4(value) == value \in {0, 1, 2, 3, 4}

FaultQueueValid(value) == value \in {0, 1, 2, 3}

setFaultQueue_cfgVal(c, value) == BitOr(c, ShiftLeft(value, 3))

\* variant: the clearing mask written as a 4-bit complement, 0x0B
setPolarity_cfgValNarrowMask(c, polarity) ==
    IF polarity = 1 THEN BitOr(c, 4) ELSE PyAnd(c, 11)

setPolarity_cfgVal(c, polarity) ==
    IF polarity = 1 THEN BitOr(c, 4) ELSE PyAnd(c, Invert(4))

comparator_mode_cfgVal(c) == PyAnd(c, 253)

\* variant: the mask 0x03 for 0x02
interrupt_mode_cfgValWideMask(c) == BitOr(c, 3)

interrupt_mode_cfgVal(c) == BitOr(c, 2)

wakeup_cfgVal(c) == PyAnd(c, 254)

shutdown_cfgVal(c) == BitOr(c, 1)

-----------------------------------------------------------------------------
(* The bus.  A transaction is addressed by (device address, register); a   *)
(* failed transaction raises in the driver method that issued it.  A       *)
(* failed write may or may not have reached the register.                  *)

Threads == {"A", "B"}

Idle == \A t \in Threads : pc[t] = "idle"

Txn(kind, addr, reg, data, ok) ==
    [kind |-> kind, addr |-> addr, reg |-> reg, data |-> data, ok |-> ok]

WriteOutcomes(d, reg, data, ok) ==
    IF ok THEN {[d EXCEPT ![reg] = data]}
    ELSE {d, [d EXCEPT ![reg] = data]}

RECURSIVE ApplyWrites(_, _)
ApplyWrites(d, ws) ==
    IF ws = <<>> THEN d
    ELSE ApplyWrites([d EXCEPT ![Head(ws).reg] = Head(ws).data], Tail(ws))

Return(op, arg, r, v, l) ==
    /\ call' = [op |-> op, arg |-> arg]
    /\ ret' = r
    /\ val' = v
    /\ log' = l

-----------------------------------------------------------------------------
(* The inputs the driver's callers supply.                                 *)

\* fault queue arguments: the four depths and MaxExcess integers on each side
MaxExcess == 1
FaultArgs == (0 - MaxExcess) .. (3 + MaxExcess)

PolarityArgs == {0, 1, 2}

\* constructor addresses: the class default and the next LM75 address
Addresses == {DefaultAddress, DefaultAddress + 1}

\* raw words written by setThys/setTset: the default of __init__ and a word
\* with the half flag, bit 7 and a magnitude
ThysWords == {75, 32768 + 128 + 25}
TsetWords == {80, 32768 + 128 + 25}

\* bytes written by setConf in the whole-driver specification: all clear,
\* and the reserved bits 5-7 set (the helpers reach the other bits)
ConfSamples == {0, 224}

\* register contents before the driver touches the chip
Regs(t, c, h, s) ==
    [r \in {__TEMP, _CONFIG, _THYST, _TSET} |->
        CASE r = __TEMP -> t
          [] r = _CONFIG -> c
          [] r = _THYST -> h
          [] OTHER -> s]

\* register contents before the driver touches the chip: the power-up
\* values, or what an earlier user left
InitialDev ==
    {Regs(0, c, h, s) : c \in {0, 255}, h \in {75, 65535}, s \in {80, 65535}}

-----------------------------------------------------------------------------
(* The driver's methods, each a whole call.                                *)

\* variant: the commented-out fourth write of __init__ restored
InitWritesThenConf ==
    << [kind |-> "write_byte_data", reg |-> _CONFIG, data |-> 0],
       [kind |-> "write_word_data", reg |-> _THYST, data |-> 75],
       [kind |-> "write_word_data", reg |-> _TSET, data |-> 80],
       [kind |-> "write_byte_data", reg |-> _CONFIG, data |-> 0] >>

\* the writes of __init__, in program order
InitWrites ==
    << [kind |-> "write_byte_data", reg |-> _CONFIG, data |-> 0],
       [kind |-> "write_word_data", reg |-> _THYST, data |-> 75],
       [kind |-> "write_word_data", reg |-> _TSET, data |-> 80] >>

\* n writes succeed; unless that is all of them, write n+1 raises
__init__(add) ==
    /\ ~constructed
    /\ call.op = "none"
    /\ Idle
    /\ \E n \in 0 .. Len(InitWrites), partial \in BOOLEAN :
         LET all == n = Len(InitWrites)
             issued == IF all THEN n ELSE n + 1
             applied == IF ~all /\ partial THEN n + 1 ELSE n
         IN  /\ Return("__init__", add,
                       IF all THEN "None" ELSE "TransportError", 0,
                       [i \in 1 .. issued |->
                          Txn(InitWrites[i].kind, add, InitWrites[i].reg,
                              InitWrites[i].data, i <= n)])
             /\ dev' = ApplyWrites(dev, SubSeq(InitWrites, 1, applied))
             /\ constructed' = all
             /\ fresh' = all
    /\ address' = add
    /\ UNCHANGED thr

ReadWord(op, reg) ==
    /\ constructed
    /\ Idle
    /\ \E ok \in BOOLEAN :
         Return(op, 0, IF ok THEN "num" ELSE "TransportError",
                IF ok THEN Decode(dev[reg]) ELSE 0,
                <<Txn("read_word_data", address, reg,
                      IF ok THEN dev[reg] ELSE -1, ok)>>)
    /\ UNCHANGED <<dev, address, constructed, fresh>>
    /\ UNCHANGED thr

getTemp == ReadWord("getTemp", 0)

getThys == ReadWord("getThys", _THYST)

getTset == ReadWord("getTset", _TSET)

getConf ==
    /\ constructed
    /\ Idle
    /\ \E ok \in BOOLEAN :
         Return("getConf", 0, IF ok THEN "num" ELSE "TransportError",
                IF ok THEN dev[_CONFIG] ELSE 0,
                <<Txn("read_byte_data", address, _CONFIG,
                      IF ok THEN dev[_CONFIG] ELSE -1, ok)>>)
    /\ UNCHANGED <<dev, address, constructed, fresh>>
    /\ UNCHANGED thr

Write(op, kind, reg, data) ==
    /\ constructed
    /\ Idle
    /\ \E ok \in BOOLEAN :
         /\ Return(op, data, IF ok THEN "None" ELSE "TransportError", 0,
                   <<Txn(kind, address, reg, data, ok)>>)
         /\ dev' \in WriteOutcomes(dev, reg, data, ok)
    /\ fresh' = FALSE
    /\ UNCHANGED <<address, constructed>>
    /\ UNCHANGED thr

setConf(conf) == Write("setConf", "write_byte_data", _CONFIG, conf)

setThys(thys) == Write("setThys", "write_word_data", _THYST, thys)

setTset(tos) == Write("setTset", "write_word_data", _TSET, tos)

\* variant: a failed read swallowed, the write issued all the same
ReadModifyWriteSwallowing(op, arg, new, r) ==
    /\ constructed
    /\ Idle
    /\ \E rok, wok \in BOOLEAN :
         LET rd == Txn("read_byte_data", address, _CONFIG,
                       IF rok THEN dev[_CONFIG] ELSE -1, rok)
             wr == Txn("write_byte_data", address, _CONFIG, new, wok)
         IN  /\ Return(op, arg, IF wok THEN r ELSE "TransportError", 0,
                       <<rd, wr>>)
             /\ dev' \in WriteOutcomes(dev, _CONFIG, new, wok)
             /\ fresh' = FALSE
    /\ UNCHANGED <<address, constructed>>
    /\ UNCHANGED thr

\* cfgVal = self.getConf(); cfgVal = new; self.setConf(cfgVal); return r
ReadModifyWrite(op, arg, new, r) ==
    /\ constructed
    /\ Idle
    /\ \E rok, wok \in BOOLEAN :
         LET rd == Txn("read_byte_data", address, _CONFIG,
                       IF rok THEN dev[_CONFIG] ELSE -1, rok)
             wr == Txn("write_byte_data", address, _CONFIG, new, wok)
         IN  IF ~rok
             THEN /\ Return(op, arg, "TransportError", 0, <<rd>>)
                  /\ UNCHANGED <<dev, fresh>>
             ELSE /\ Return(op, arg, IF wok THEN r ELSE "TransportError", 0,
                            <<rd, wr>>)
                  /\ dev' \in WriteOutcomes(dev, _CONFIG, new, wok)
                  /\ fresh' = FALSE
    /\ UNCHANGED <<address, constructed>>
    /\ UNCHANGED thr

setFaultQueue(value) ==
    IF ~FaultQueueValid(value)
    THEN /\ constructed
         /\ Idle
         /\ Return("setFaultQueue", value, "False", 0, <<>>)
         /\ UNCHANGED <<dev, address, constructed, fresh>>
         /\ UNCHANGED thr
    ELSE ReadModifyWrite("setFaultQueue", value,
                         setFaultQueue_cfgVal(dev[_CONFIG], value), "True")

setPolarity(polarity) ==
    ReadModifyWrite("setPolarity", polarity,
                    setPolarity_cfgVal(dev[_CONFIG], polarity), "None")

comparator_mode ==
    ReadModifyWrite("comparator_mode", 0, comparator_mode_cfgVal(dev[_CONFIG]), "True")

interrupt_mode ==
    ReadModifyWrite("interrupt_mode", 0, interrupt_mode_cfgVal(dev[_CONFIG]), "True")

wakeup ==
    ReadModifyWrite("wakeup", 0, wakeup_cfgVal(dev[_CONFIG]), "True")

shutdown ==
    ReadModifyWrite("shutdown", 0, shutdown_cfgVal(dev[_CONFIG]), "True")

-----------------------------------------------------------------------------
(* One caller: the chip in any initial state, the object not yet built.    *)

ThreadsIdle ==
    /\ pc = [t \in Threads |-> "idle"]
    /\ top = [t \in Threads |-> [op |-> "none", arg |-> 0]]
    /\ cfgVal = [t \in Threads |-> 0]
    /\ order = <<>>

Init ==
    /\ dev \in InitialDev
    /\ address = DefaultAddress
    /\ constructed = FALSE
    /\ fresh = FALSE
    /\ call = [op |-> "none", arg |-> 0]
    /\ ret = "none"
    /\ val = 0
    /\ log = <<>>
    /\ ThreadsIdle
    /\ conf0 = 0

Next ==
    \/ \E add \in Addresses : __init__(add)
    \/ \E value \in FaultArgs : setFaultQueue(value)
    \/ getTemp
    \/ \E polarity \in PolarityArgs : setPolarity(polarity)
    \/ comparator_mode
    \/ interrupt_mode
    \/ wakeup
    \/ shutdown
    \/ getThys
    \/ getTset
    \/ getConf
    \/ \E conf \in ConfSamples : setConf(conf)
    \/ \E thys \in ThysWords : setThys(thys)
    \/ \E tos \in TsetWords : setTset(tos)

Spec == Init /\ [][Next]_vars

-----------------------------------------------------------------------------
(* The configuration helpers on every CONFIG byte: the object built at     *)
(* the second address, then setConf(c) for any byte c.                     *)

AfterSetConf(c, h, s, t) ==
    /\ dev = Regs(t, c, h, s)
    /\ address = DefaultAddress + 1
    /\ constructed = TRUE
    /\ fresh = FALSE
    /\ val = 0

InitHelpers ==
    /\ \E c \in Bytes :
         /\ AfterSetConf(c, 75, 80, 0)
         /\ call = [op |-> "setConf", arg |-> c]
         /\ log = <<Txn("write_byte_data", address, _CONFIG, c, TRUE)>>
    /\ ret = "None"
    /\ ThreadsIdle
    /\ conf0 = 0

NextHelpers ==
    \/ \E value \in FaultArgs : setFaultQueue(value)
    \/ \E polarity \in PolarityArgs : setPolarity(polarity)
    \/ comparator_mode
    \/ interrupt_mode
    \/ wakeup
    \/ shutdown
    \/ getConf

SpecHelpers == InitHelpers /\ [][NextHelpers]_vars

-----------------------------------------------------------------------------
(* The decoding on every 16-bit word: the object built, the word w written *)
(* to THYST and TSET, and the chip's TEMP register holding w.              *)

InitCodec ==
    /\ \E w \in AllWords :
         /\ AfterSetConf(0, w, w, w)
         /\ call = [op |-> "setTset", arg |-> w]
         /\ log = <<Txn("write_word_data", address, _TSET, w, TRUE)>>
    /\ ret = "None"
    /\ ThreadsIdle
    /\ conf0 = 0

NextCodec ==
    \/ getTemp
    \/ getThys
    \/ getTset

SpecCodec == InitCodec /\ [][NextCodec]_vars

-----------------------------------------------------------------------------
(* Two threads sharing one sensor object, each calling one single-bit      *)
(* helper.  The driver takes no lock, so the unit of interleaving is the   *)
(* bus transaction: getConf's read, then setConf's write.                  *)

Helpers ==
    {[op |-> "shutdown", arg |-> 0], [op |-> "wakeup", arg |-> 0],
     [op |-> "interrupt_mode", arg |-> 0], [op |-> "comparator_mode", arg |-> 0],
     [op |-> "setPolarity", arg |-> 1], [op |-> "setPolarity", arg |-> 0]}

HelperVal(h, c) ==
    CASE h.op = "shutdown" -> shutdown_cfgVal(c)
      [] h.op = "wakeup" -> wakeup_cfgVal(c)
      [] h.op = "interrupt_mode" -> interrupt_mode_cfgVal(c)
      [] h.op = "comparator_mode" -> comparator_mode_cfgVal(c)
      [] h.op = "setPolarity" -> setPolarity_cfgVal(c, h.arg)

\* the thread enters the helper
tCall(t, h) ==
    /\ pc[t] = "idle"
    /\ top[t].op = "none"
    /\ top' = [top EXCEPT ![t] = h]
    /\ pc' = [pc EXCEPT ![t] = "read"]
    /\ UNCHANGED <<cfgVal, order, conf0>>
    /\ UNCHANGED drv

\* cfgVal = self.getConf(), and the helper's change to the local
tRead(t) ==
    /\ pc[t] = "read"
    /\ cfgVal' = [cfgVal EXCEPT ![t] = HelperVal(top[t], dev[_CONFIG])]
    /\ pc' = [pc EXCEPT ![t] = "write"]
    /\ order' = Append(order, <<t, "read">>)
    /\ UNCHANGED <<top, conf0>>
    /\ UNCHANGED drv

\* variant: the change applied to the register's current value
WriteBackFresh(t) == HelperVal(top[t], dev[_CONFIG])

\* the byte self.setConf(cfgVal) sends: the local, whatever CONFIG holds now
WriteBack(t) == cfgVal[t]

\* self.setConf(cfgVal); return
tWrite(t) ==
    /\ pc[t] = "write"
    /\ dev' = [dev EXCEPT ![_CONFIG] = WriteBack(t)]
    /\ pc' = [pc EXCEPT ![t] = "done"]
    /\ order' = Append(order, <<t, "write">>)
    /\ UNCHANGED <<top, cfgVal, conf0>>
    /\ UNCHANGED <<address, constructed, fresh, call, ret, val, log>>

InitThreads ==
    /\ \E c \in Bytes :
         /\ AfterSetConf(c, 75, 80, 0)
         /\ call = [op |-> "setConf", arg |-> c]
         /\ log = <<Txn("write_byte_data", address, _CONFIG, c, TRUE)>>
         /\ conf0 = c
    /\ ret = "None"
    /\ ThreadsIdle

NextThreads ==
    \/ \E t \in Threads, h \in Helpers : tCall(t, h)
    \/ \E t \in Threads : tRead(t)
    \/ \E t \in Threads : tWrite(t)

SpecThreads == InitThreads /\ [][NextThreads]_vars

-----------------------------------------------------------------------------
(* The properties.  They read bits with Bit, not with the driver's own     *)
(* masks.                                                                  *)

Bit(x, i) == (x \div Pow(2, i)) % 2

\* sign-magnitude value of a raw word, in half degrees
SignMagnitude(w) ==
    (IF Bit(w, 7) = 1 THEN -1 ELSE 1) * (2 * (w % 128) + Bit(w, 15))

\* raw word of a half-degree count x with |x| <= 255
Encode(x) ==
    LET m == IF x < 0 THEN 0 - x ELSE x
    IN  (m % 2) * 32768 + (IF x < 0 THEN 128 ELSE 0) + (m \div 2)

WordGetterReg(op) ==
    CASE op = "getTemp" -> 0
      [] op = "getThys" -> 2
      [] op = "getTset" -> 3

\* the bit a single-bit helper forces, and the value it forces it to
SingleBit(h) ==
    CASE h.op = "shutdown" -> <<0, 1>>
      [] h.op = "wakeup" -> <<0, 0>>
      [] h.op = "interrupt_mode" -> <<1, 1>>
      [] h.op = "comparator_mode" -> <<1, 0>>
      [] h.op = "setPolarity" -> <<2, h.arg>>

SingleBitOps ==
    {"shutdown", "wakeup", "interrupt_mode", "comparator_mode", "setPolarity"}

ReadModifyWriteOps == SingleBitOps \cup {"setFaultQueue"}

\* byte c with the bit of helper h forced
Forced(c, h) ==
    LET b == SingleBit(h)
    IN  c - Bit(c, b[1]) * Pow(2, b[1]) + b[2] * Pow(2, b[1])

Raised == ret = "TransportError"

(* C1: a successful getTemp/getThys/getTset returns the sign-magnitude     *)
(* value of the word its register holds: negative (or zero) when bit 7 is  *)
(* set.                                                                    *)
C1_DecodeIsSignMagnitude ==
    (call.op \in {"getTemp", "getThys", "getTset"} /\ ret = "num")
        => val = SignMagnitude(dev[WordGetterReg(call.op)])

(* C2: a successful setFaultQueue(depth), depth in 0..3, leaves CONFIG     *)
(* with bits 3-4 equal to depth and every other bit as before the call.    *)
C2_FaultQueueReplacesDepth ==
    [][(call'.op = "setFaultQueue" /\ ret' = "True")
         => /\ Bit(dev'[1], 3) + 2 * Bit(dev'[1], 4) = call'.arg
            /\ \A i \in {0, 1, 2, 5, 6, 7} : Bit(dev'[1], i) = Bit(dev[1], i)]_vars

(* C3: setFaultQueue with an argument outside {0,1,2,3} returns False,     *)
(* issues no bus transaction and leaves every register as it was.          *)
C3_InvalidDepthRejected ==
    [][(call'.op = "setFaultQueue" /\ call'.arg \notin {0, 1, 2, 3})
         => /\ ret' = "False"
            /\ log' = <<>>
            /\ dev' = dev]_vars

C3_Witness ==
    /\ call = [op |-> "setFaultQueue", arg |-> -1]
    /\ ret = "False"
    /\ log = <<>>
    /\ dev[1] = 255

(* C4: a single-bit helper that returns writes back the byte it read with  *)
(* only its own bit forced (shutdown/wakeup bit 0, interrupt_mode/         *)
(* comparator_mode bit 1, setPolarity(1)/setPolarity(0) bit 2); the other  *)
(* seven bits are unchanged and the byte written is within 0..255.         *)
C4_SingleBitHelpers ==
    [][(call'.op \in SingleBitOps /\ call'.arg \in {0, 1} /\ ~Raised')
         => /\ \A i \in 0 .. 7 :
                 Bit(dev'[1], i) =
                     IF i = SingleBit(call')[1] THEN SingleBit(call')[2]
                     ELSE Bit(dev[1], i)
            /\ Len(log') = 2
            /\ log'[2].kind = "write_byte_data"
            /\ log'[2].reg = 1
            /\ log'[2].data = dev'[1]
            /\ log'[2].data \in 0 .. 255]_vars

C4_Witness ==
    /\ call = [op |-> "setPolarity", arg |-> 0]
    /\ ret = "None"
    /\ log[1].data = 255
    /\ dev[1] = 251

(* C5: a constructor that returns has issued exactly three bus writes and  *)
(* no read, in order: byte 0 to register 1, word 0x004B to register 2,     *)
(* word 0x0050 to register 3, all at the address it was given; no other    *)
(* method of the object runs before it has returned.                       *)
C5_ConstructorWrites ==
    /\ (call.op = "__init__" /\ ret = "None")
         => /\ log = << Txn("write_byte_data", call.arg, 1, 0, TRUE),
                        Txn("write_word_data", call.arg, 2, 75, TRUE),
                        Txn("write_word_data", call.arg, 3, 80, TRUE) >>
            /\ address = call.arg
    /\ call.op = "__init__"
         => \A i \in 1 .. Len(log) :
              log[i].kind \in {"write_byte_data", "write_word_data"}
    /\ (call.op = "__init__" /\ constructed) => ret = "None"
    /\ call.op \notin {"none", "__init__"} => constructed

C5_Witness ==
    /\ call = [op |-> "__init__", arg |-> 73]
    /\ ret = "None"
    /\ Len(log) = 3
    /\ dev[1] = 0 /\ dev[2] = 75 /\ dev[3] = 80

(* C6 as stated: on a constructed sensor no call other than wakeup() or    *)
(* shutdown() changes bit 0 of CONFIG (read here of a call that returns,   *)
(* made after a call that returned, which is all the refutation needs).    *)
C6_OnlyWakeupShutdownToggle ==
    [][(constructed /\ ~Raised /\ call'.op \notin {"wakeup", "shutdown"} /\ ~Raised')
         => Bit(dev'[1], 0) = Bit(dev[1], 0)]_vars

(* C6 as amended: on a constructed sensor no call other than wakeup(),     *)
(* shutdown() or the raw write setConf() changes bit 0 of CONFIG, and in   *)
(* both states every method can be called.                                 *)
C6_OnlyWakeupShutdownSetConfToggle ==
    /\ [][(constructed /\ call'.op \notin {"wakeup", "shutdown", "setConf"})
            => Bit(dev'[1], 0) = Bit(dev[1], 0)]_vars
    /\ [](constructed =>
            /\ ENABLED getTemp /\ ENABLED getThys /\ ENABLED getTset
            /\ ENABLED getConf
            /\ \A c \in ConfSamples : ENABLED setConf(c)
            /\ \A w \in ThysWords : ENABLED setThys(w)
            /\ \A w \in TsetWords : ENABLED setTset(w)
            /\ \A v \in FaultArgs : ENABLED setFaultQueue(v)
            /\ \A p \in PolarityArgs : ENABLED setPolarity(p)
            /\ ENABLED comparator_mode /\ ENABLED interrupt_mode
            /\ ENABLED wakeup /\ ENABLED shutdown)

C6_Witness ==
    /\ call.op = "interrupt_mode"
    /\ ret = "True"
    /\ log[1].data = 225
    /\ dev[1] = 227

(* C7: a call raises exactly when its last bus transaction failed, and     *)
(* nothing follows a failed transaction; a helper whose CONFIG read failed *)
(* has issued that read only and left the registers alone; a constructor   *)
(* that raised has issued its writes in order up to the failed one and     *)
(* left the registers of the later writes alone.                           *)
C7_FailurePropagates ==
    /\ [](/\ Raised <=> (log # <<>> /\ ~log[Len(log)].ok)
          /\ \A i \in 1 .. Len(log) - 1 : log[i].ok
          /\ \A i, j \in 1 .. Len(log) : i # j => log[i].reg # log[j].reg \/ log[i].kind # log[j].kind
          /\ (call.op \in ReadModifyWriteOps /\ log # <<>> /\ ~log[1].ok)
               => /\ Len(log) = 1
                  /\ log[1].kind = "read_byte_data"
          /\ (call.op = "__init__" /\ Raised)
               => /\ ~constructed
                  /\ Len(log) <= 3
                  /\ \A i \in 1 .. Len(log) : log[i].reg = i)
    /\ [][(call'.op \in ReadModifyWriteOps /\ log' # <<>> /\ ~log'[1].ok)
            => dev' = dev]_vars
    /\ [][(call'.op = "__init__" /\ Raised')
            => \A r \in 1 .. 3 : r > Len(log') => dev'[r] = dev[r]]_vars

C7_Witness ==
    /\ call.op = "shutdown"
    /\ Raised
    /\ Len(log) = 1
    /\ dev[1] = 224

(* C8: decoding the encoding of x gives x back, for every half-degree      *)
(* count x that has a sign-magnitude encoding (|x| <= 127.5 degrees).      *)
C8_DecodeEncodeRoundTrip ==
    (call.op = "getTemp" /\ ret = "num")
        => \A x \in -255 .. 255 : dev[0] = Encode(x) => val = x

(* C9: while no write has been attempted since the constructor returned,   *)
(* getConf() returns 0, getThys() 75.0 and getTset() 80.0; a register      *)
(* holding 0x0000 decodes to 0.0.                                          *)
C9_DefaultsReadBack ==
    /\ (fresh /\ call.op = "getConf" /\ ret = "num") => val = 0
    /\ (fresh /\ call.op = "getThys" /\ ret = "num") => val = 150
    /\ (fresh /\ call.op = "getTset" /\ ret = "num") => val = 160
    /\ (call.op \in {"getTemp", "getThys", "getTset"} /\ ret = "num"
          /\ dev[WordGetterReg(call.op)] = 0) => val = 0

C9_Witness ==
    /\ fresh
    /\ call.op = "getTset"
    /\ ret = "num"
    /\ val = 160
    /\ dev[0] = 0

(* C10: when two threads each run one single-bit helper and both CONFIG    *)
(* reads come before both writes, then after both have returned CONFIG is  *)
(* the starting byte with only the later writer's bit forced: the earlier  *)
(* writer's change is lost.  When one helper finishes before the other     *)
(* reads, both changes are there.                                          *)
C10_LostUpdate ==
    (\A t \in Threads : pc[t] = "done")
        => LET first == order[2][1]
               last == order[4][1]
           IN  IF order[2][2] = "read"
               THEN dev[1] = Forced(conf0, top[last])
               ELSE dev[1] = Forced(Forced(conf0, top[first]), top[last])

C10_Witness ==
    /\ \A t \in Threads : pc[t] = "done"
    /\ top["A"].op = "shutdown"
    /\ top["B"].op = "interrupt_mode"
    /\ conf0 = 0
    /\ dev[1] = 2

====
